---- MODULE Spec2Model ----
(***************************************************************************)
(* Model of scripts/dat-converter.py: the walk over the elevation          *)
(* directories, the decoding of each raw file, the left/right pairing,     *)
(* the accumulation in data_arrays and the final save_data_to_file.        *)
(*                                                                         *)
(* A file name is a sequence of one-character strings, a byte buffer a     *)
(* sequence of numbers 0..255.  A float32 value is kept as the exact       *)
(* quotient <<numerator, denominator>> it is rounded from: rounding to     *)
(* float32 is monotone and -1, 1 and the small integers are float32        *)
(* values, so every comparison made below is the one float32 gives.        *)
(***************************************************************************)
EXTENDS Integers, Sequences, FiniteSets, TLC

\* ---------------------------------------------------------------- bounds
\* entries in one directory listing
MaxEntries == 2
\* elevation directories of the input tree that may hold entries: the
\* MaxBusy directories from elevation 40 on
MaxBusy == 2

\* ------------------------------------------------------ program constants
sample_size == 128
window_start == 40
Int16Max == 32767

number_range == [x \in 1..14 |-> -40 + 10 * (x - 1)]

\* --------------------------------------------------------------- inputs
NameLA == <<"L", "e", "4", "0", "a", "9", "0", ".", "b", "i", "n">>
NameRA == <<"R", "e", "4", "0", "a", "9", "0", ".", "b", "i", "n">>
NameStray == <<"n", "o", "t", "e", "s", ".", "t", "x", "t">>
NameNaN == <<"L", "e", "x", "a">>
NameLB == <<"L", "0", "e", "0", "0", "5", "a", ".", "d", "a", "t">>
NameRB == <<"R", "0", "e", "0", "0", "5", "a", ".", "d", "a", "t">>

\* Byte j (1-based) of the content every input file is a prefix of: sample
\* k = (j-1) \div 2 is stored high byte first.
PatternByte(j) ==
  LET k == (j - 1) \div 2
      hi == (j % 2 = 1)
  IN  CASE k = 40 -> IF hi THEN 128 ELSE 0
        [] k = 41 -> IF hi THEN 127 ELSE 255
        [] k = 42 -> 255
        [] k = 43 -> IF hi THEN 1 ELSE 2
        [] OTHER  -> IF hi THEN 0 ELSE k % 256

FileBytes(n) == [j \in 1..n |-> PatternByte(j)]

\* sizes in bytes of the input files: 44 samples, 44 samples and a stray
\* byte, 200 samples
SizePool == {88, 89, 400}

\* a left or right file of any size, a stray file, a left file whose
\* azimuth text is no number, or a subdirectory under one of the names
EntryPool ==
  {[name |-> n, isfile |-> TRUE, size |-> s] : n \in {NameLA, NameRA}, s \in SizePool}
  \cup {[name |-> n, isfile |-> TRUE, size |-> 88] : n \in {NameStray, NameNaN}}
  \cup {[name |-> n, isfile |-> FALSE, size |-> 0] : n \in {NameLA, NameRA, NameStray}}

BusyFrom == CHOOSE x \in DOMAIN number_range : number_range[x] = 40
MayBeBusy(x) == x \in BusyFrom..(BusyFrom + MaxBusy - 1)

Listings ==
  UNION {{l \in [1..n -> EntryPool] :
            \A a, b \in 1..n : a # b => l[a].name # l[b].name}
         : n \in 0..MaxEntries}

\* The listings of a well-formed directory: regular files only, a left
\* file next to every right file and a right file next to every left one,
\* in any order.
PairEntryPool ==
  {[name |-> NameLA, isfile |-> TRUE, size |-> s] : s \in {88, 400}}
  \cup {[name |-> n, isfile |-> TRUE, size |-> 88] : n \in {NameRA, NameLB, NameRB}}

PairListings ==
  UNION {{l \in [1..n -> PairEntryPool] :
            /\ \A a, b \in 1..n : a # b => l[a].name # l[b].name
            /\ (\E a \in 1..n : l[a].name = NameLA) <=> (\E a \in 1..n : l[a].name = NameRA)
            /\ (\E a \in 1..n : l[a].name = NameLB) <=> (\E a \in 1..n : l[a].name = NameRB)}
         : n \in {0, 2, 4}}

\* ------------------------------------------------------- pure functions
StartsWith(name, c) == Len(name) > 0 /\ name[1] = c

Min(a, b) == IF a < b THEN a ELSE b

\* Findall as it would be if the group stood after the 'a': the digits that
\* follow the first 'a' behind the first 'e'
FindallAfterA(name) ==
  LET starts == {i \in 1..Len(name) :
                   name[i] = "e" /\ \E j \in (i + 1)..Len(name) : name[j] = "a"}
  IN  IF starts = {} THEN <<>>
      ELSE LET i0 == CHOOSE i \in starts : \A x \in starts : i <= x
               j0 == CHOOSE j \in (i0 + 1)..Len(name) :
                        name[j] = "a" /\ \A x \in (i0 + 1)..(j - 1) : name[x] # "a"
               stop == CHOOSE j \in (j0 + 1)..(Len(name) + 1) :
                        /\ j = Len(name) + 1 \/ name[j] \notin {"0", "4", "5", "9"}
                        /\ \A x \in (j0 + 1)..(j - 1) : name[x] \in {"0", "4", "5", "9"}
           IN  <<[x \in 1..(stop - 1 - j0) |-> name[j0 + x]]>>

\* re.findall(r'e(.*?)a', filename): the leftmost 'e' that has an 'a' after
\* it starts the first match, and the lazy group stops at the first such
\* 'a'.  The result is the list of captures; only its element 0 is used, so
\* the list is modelled up to its first element (<<>> when nothing matches).
Findall(name) ==
  LET starts == {i \in 1..Len(name) :
                   name[i] = "e" /\ \E j \in (i + 1)..Len(name) : name[j] = "a"}
  IN  IF starts = {} THEN <<>>
      ELSE LET i0 == CHOOSE i \in starts : \A x \in starts : i <= x
               j0 == CHOOSE j \in (i0 + 1)..Len(name) :
                        name[j] = "a" /\ \A x \in (i0 + 1)..(j - 1) : name[x] # "a"
           IN  <<[x \in 1..(j0 - 1 - i0) |-> name[i0 + x]]>>

Digits == <<"0", "1", "2", "3", "4", "5", "6", "7", "8", "9">>
IsDigit(c) == \E d \in 1..10 : Digits[d] = c
DigitVal(c) == (CHOOSE d \in 1..10 : Digits[d] = c) - 1

RECURSIVE DecimalValue(_)
DecimalValue(cs) ==
  IF cs = <<>> THEN 0
  ELSE 10 * DecimalValue(SubSeq(cs, 1, Len(cs) - 1)) + DigitVal(cs[Len(cs)])

\* int(text): an optional sign and at least one decimal digit, else ValueError.
IntOf(cs) ==
  LET signed == Len(cs) > 0 /\ cs[1] \in {"-", "+"}
      ds == IF signed THEN Tail(cs) ELSE cs
  IN  IF ds = <<>> \/ \E x \in 1..Len(ds) : ~IsDigit(ds[x])
      THEN [ok |-> FALSE, val |-> 0]
      ELSE [ok |-> TRUE,
            val |-> IF signed /\ cs[1] = "-" THEN 0 - DecimalValue(ds)
                    ELSE DecimalValue(ds)]

\* Unpack_h as it would be with "<h": low byte first
Unpack_le(b1, b2) ==
  LET u == b2 * 256 + b1
  IN  IF u >= 32768 THEN u - 65536 ELSE u

\* struct.unpack(">h", two bytes)[0]
Unpack_h(b1, b2) ==
  LET u == b1 * 256 + b2
  IN  IF u >= 32768 THEN u - 65536 ELSE u

\* for j in range(0, len(raw_data), 2): unpack raw_data[j:j+2] and append.
\* The last chunk of a buffer of odd length has one byte and struct.unpack
\* raises struct.error on it, after the whole chunks were appended.
Decode(raw) ==
  LET whole == Len(raw) \div 2
  IN  [ok |-> Len(raw) % 2 = 0,
       samples |-> [k \in 1..whole |-> Unpack_h(raw[2 * k - 1], raw[2 * k])]]

\* seq[lo:hi] of Python, 0 <= lo <= hi
Slice(seq, lo, hi) ==
  LET last == Min(hi, Len(seq))
  IN  IF lo >= last THEN <<>> ELSE [x \in 1..(last - lo) |-> seq[lo + x]]

convert_int_to_float(data) == [x \in 1..Len(data) |-> <<data[x], Int16Max>>]

\* ReplaceFirst as it would be if the replacement were lost
ReplaceNone(name) == name

\* filename.replace("L", "R", 1)
ReplaceFirst(name) ==
  IF \E i \in 1..Len(name) : name[i] = "L"
  THEN LET i0 == CHOOSE i \in 1..Len(name) :
                    name[i] = "L" /\ \A x \in 1..(i - 1) : name[x] # "L"
       IN  [x \in 1..Len(name) |-> IF x = i0 THEN "R" ELSE name[x]]
  ELSE name

\* struct.pack("f", v) of an integer v, and one float32 of data.tobytes():
\* each is one 4-byte word of the output file
Pack_f(v) == <<v, 1>>
ToBytes(data) == data

\* Serialize as it would be if the azimuth were written first, as the
\* comment of line 25 has it
RECURSIVE SerializeAzimuthFirst(_)
SerializeAzimuthFirst(recs) ==
  IF recs = <<>> THEN <<>>
  ELSE <<Pack_f(recs[1][2]), Pack_f(recs[1][1])>> \o ToBytes(recs[1][3])
       \o SerializeAzimuthFirst(Tail(recs))

RECURSIVE Serialize(_)
Serialize(recs) ==
  IF recs = <<>> THEN <<>>
  ELSE <<Pack_f(recs[1][1]), Pack_f(recs[1][2])>> \o ToBytes(recs[1][3])
       \o Serialize(Tail(recs))

\* lines 43-49 (and 55-61): read, find the azimuth text, decode, int(azi);
\* the first step that raises decides the exception
Parse(filename, raw) ==
  LET m == Findall(filename)
      d == Decode(raw)
  IN  IF m = <<>> THEN [fault |-> "IndexError", azi |-> 0, encoded |-> <<>>]
      ELSE IF ~d.ok THEN [fault |-> "struct.error", azi |-> 0, encoded |-> d.samples]
      ELSE IF ~IntOf(m[1]).ok
           THEN [fault |-> "ValueError", azi |-> 0, encoded |-> d.samples]
      ELSE [fault |-> "none", azi |-> IntOf(m[1]).val, encoded |-> d.samples]

\* the record of line 51 and of line 63
Record(i, azi, encoded) ==
  <<i, azi, convert_int_to_float(Slice(encoded, window_start, sample_size + window_start))>>

\* Release as it would be if only the innermost file were closed
ReleaseInnermost(hs, n) == SubSeq(hs, 1, Len(hs) - Min(n, 1))

\* the exit of the innermost n with-blocks closes their files
Release(hs, n) == SubSeq(hs, 1, Len(hs) - n)

\* Unhandled as it would be if the exception were swallowed and the script
\* went on to write what it has
UnhandledSwallowed == "save"

\* no exception is caught anywhere: the first one ends the script
Unhandled == "aborted"

\* ----------------------------------------------------------------- state
VARIABLES
  pc,           \* "listdir" | "next" | "left" | "openR" | "right" | "save" | "done" | "aborted"
  di,           \* position of i in number_range
  listing,      \* os.listdir(folder_path) while the directory is walked
  fi,           \* position of filename in listing
  raw_data, encoded_data, azi_key,
  data_arrays,
  handles,      \* the input files that are open, outermost first
  out,          \* the output file: times opened, and the 4-byte words written
  fault,        \* the exception that ended the script, or "none"
  lefts         \* history: left files whose pair was appended

vars == <<pc, di, listing, fi, raw_data, encoded_data, azi_key, data_arrays,
          handles, out, fault, lefts>>

Init ==
  /\ pc = "listdir"
  /\ di = 1
  /\ listing = <<>>
  /\ fi = 1
  /\ raw_data = <<>>
  /\ encoded_data = <<>>
  /\ azi_key = 0
  /\ data_arrays = <<>>
  /\ handles = <<>>
  /\ out = [opens |-> 0, words |-> <<>>]
  /\ fault = "none"
  /\ lefts = 0

Raise(exc, open) ==
  /\ fault' = exc
  /\ handles' = Release(handles, open)
  /\ pc' = Unhandled

\* line 38: os.listdir(folder_path); a missing directory raises
ListDir(pool) ==
  /\ pc = "listdir"
  /\ \/ /\ Raise("FileNotFoundError", 0)
        /\ UNCHANGED <<di, listing, fi, raw_data, encoded_data, azi_key,
                       data_arrays, out, lefts>>
     \/ \E l \in pool :
          /\ l # <<>> => MayBeBusy(di)
          /\ listing' = l
          /\ fi' = 1
          /\ pc' = "next"
          /\ UNCHANGED <<di, raw_data, encoded_data, azi_key, data_arrays,
                         handles, out, fault, lefts>>

\* lines 36, 38-41: the next filename of the listing, or the next directory
NextFile ==
  /\ pc = "next"
  /\ IF fi > Len(listing)
     THEN /\ di' = di + 1
          /\ pc' = IF di + 1 > Len(number_range) THEN "save" ELSE "listdir"
          /\ listing' = <<>>
          /\ fi' = 1
          /\ UNCHANGED handles
     ELSE IF listing[fi].isfile
     THEN /\ handles' = Append(handles, <<number_range[di], listing[fi].name>>)
          /\ pc' = "left"
          /\ UNCHANGED <<di, listing, fi>>
     ELSE /\ fi' = fi + 1
          /\ UNCHANGED <<pc, di, listing, handles>>
  /\ UNCHANGED <<raw_data, encoded_data, azi_key, data_arrays, out,
                 fault, lefts>>

\* lines 43-51 and 64-65
ReadLeft ==
  /\ pc = "left"
  /\ LET filename == listing[fi].name
         raw == FileBytes(listing[fi].size)
         p == Parse(filename, raw)
     IN  /\ raw_data' = raw
         /\ encoded_data' = p.encoded
         /\ IF p.fault # "none"
            THEN /\ Raise(p.fault, 1)
                 /\ UNCHANGED <<fi, azi_key, data_arrays>>
            ELSE /\ azi_key' = p.azi
                 /\ fault' = fault
                 /\ IF StartsWith(filename, "L")
                    THEN /\ data_arrays' =
                              Append(data_arrays, Record(number_range[di], p.azi, p.encoded))
                         /\ pc' = "openR"
                         /\ UNCHANGED <<fi, handles>>
                    ELSE /\ handles' = Release(handles, 1)
                         /\ fi' = fi + 1
                         /\ pc' = "next"
                         /\ UNCHANGED data_arrays
  /\ UNCHANGED <<di, listing, out, lefts>>

\* lines 52-53
OpenRight ==
  /\ pc = "openR"
  /\ LET rname == ReplaceFirst(listing[fi].name)
         found == {x \in 1..Len(listing) : listing[x].name = rname}
     IN  IF found = {} THEN Raise("FileNotFoundError", 1)
         ELSE IF \E x \in found : ~listing[x].isfile THEN Raise("IsADirectoryError", 1)
         ELSE /\ handles' = Append(handles, <<number_range[di], rname>>)
              /\ pc' = "right"
              /\ fault' = fault
  /\ UNCHANGED <<di, listing, fi, raw_data, encoded_data, azi_key, data_arrays,
                 out, lefts>>

\* lines 55-63
ReadRight ==
  /\ pc = "right"
  /\ LET filename == listing[fi].name
         rname == handles[Len(handles)][2]
         x == CHOOSE y \in 1..Len(listing) : listing[y].name = rname
         raw == FileBytes(listing[x].size)
         p == Parse(filename, raw)
     IN  /\ raw_data' = raw
         /\ encoded_data' = p.encoded
         /\ IF p.fault # "none"
            THEN /\ Raise(p.fault, 2)
                 /\ UNCHANGED <<fi, azi_key, data_arrays, lefts>>
            ELSE /\ azi_key' = p.azi
                 /\ fault' = fault
                 /\ data_arrays' =
                      Append(data_arrays, Record(number_range[di], p.azi, p.encoded))
                 /\ handles' = Release(handles, 2)
                 /\ lefts' = lefts + 1
                 /\ fi' = fi + 1
                 /\ pc' = "next"
  /\ UNCHANGED <<di, listing, out>>

\* line 68 and save_data_to_file
Save ==
  /\ pc = "save"
  /\ out' = [opens |-> out.opens + 1, words |-> Serialize(data_arrays)]
  /\ pc' = "done"
  /\ UNCHANGED <<di, listing, fi, raw_data, encoded_data, azi_key, data_arrays,
                 handles, fault, lefts>>

ListAny == ListDir(Listings)
ListPairs == ListDir(PairListings)

\* any input tree within the bounds
Next == ListAny \/ NextFile \/ ReadLeft \/ OpenRight \/ ReadRight \/ Save

Spec == Init /\ [][Next]_vars

\* the input trees whose directories are well formed (or missing)
NextPairs == ListPairs \/ NextFile \/ ReadLeft \/ OpenRight \/ ReadRight \/ Save

SpecPairs == Init /\ [][NextPairs]_vars

\* ======================================================== the properties
LastRecord == data_arrays[Len(data_arrays)]
Ended == pc \in {"done", "aborted"}

\* the first position of c in name at or after from (0 when there is none)
FirstAt(name, c, from) ==
  IF \E i \in from..Len(name) : name[i] = c
  THEN CHOOSE i \in from..Len(name) : name[i] = c /\ \A x \in from..(i - 1) : name[x] # c
  ELSE 0

\* the text between the first 'e' and the first 'a' behind it
TextBetweenEA(name) ==
  LET i == FirstAt(name, "e", 1)
      j == FirstAt(name, "a", i + 1)
  IN  SubSeq(name, i + 1, j - 1)

\* the digits that follow that 'a'
TextAfterA(name) ==
  LET j == FirstAt(name, "a", FirstAt(name, "e", 1) + 1)
      stop == CHOOSE k \in (j + 1)..(Len(name) + 1) :
                /\ k = Len(name) + 1 \/ ~IsDigit(name[k])
                /\ \A x \in (j + 1)..(k - 1) : IsDigit(name[x])
  IN  SubSeq(name, j + 1, stop - 1)

\* name is 'L', "e<digits>a<digits>", then an extension
FormLEA(name) ==
  /\ Len(name) >= 5 /\ name[1] = "L" /\ name[2] = "e"
  /\ LET j == FirstAt(name, "a", 3)
     IN  /\ j > 3 /\ j < Len(name)
         /\ \A x \in 3..(j - 1) : IsDigit(name[x])
         /\ IsDigit(name[j + 1])

\* value v is the signed 16-bit reading of bytes b1 b2, high byte first
IsBigEndian16(v, b1, b2) ==
  /\ v \in -32768..32767
  /\ (v - (b1 * 256 + b2)) % 65536 = 0

\* window is raw's samples 40..167, in order, each over 32767
IsWindowOf(window, raw) ==
  /\ Len(window) = 128
  /\ \A k \in 1..128 :
       /\ window[k][2] = 32767
       /\ IsBigEndian16(window[k][1], raw[2 * (39 + k) + 1], raw[2 * (39 + k) + 2])

\* C1: at every file boundary data_arrays holds one pair of records per left
\* file that was processed and nothing else, the two records of a pair with
\* the same elevation and azimuth; in between it holds the left record alone;
\* and the pair of the left file just processed is the window of that file
\* followed by the window of the file of the same directory whose name is
\* the left name with its leading 'L' turned into 'R'.
C1_Pairing ==
  /\ pc \in {"listdir", "next", "save", "done"} =>
       /\ Len(data_arrays) = 2 * lefts
       /\ \A k \in 1..lefts :
            /\ data_arrays[2 * k - 1][1] = data_arrays[2 * k][1]
            /\ data_arrays[2 * k - 1][2] = data_arrays[2 * k][2]
  /\ pc \in {"openR", "right"} => Len(data_arrays) = 2 * lefts + 1
  /\ (pc = "next" /\ fi > 1) =>
       LET e == listing[fi - 1]
           n == Len(data_arrays)
       IN  (e.isfile /\ StartsWith(e.name, "L")) =>
             \E x \in 1..Len(listing) :
               /\ listing[x].name = <<"R">> \o Tail(e.name)
               /\ listing[x].isfile
               /\ n >= 2
               /\ data_arrays[n - 1] =
                    Record(number_range[di], azi_key, Decode(FileBytes(e.size)).samples)
               /\ data_arrays[n] =
                    Record(number_range[di], azi_key, Decode(FileBytes(listing[x].size)).samples)

\* a left file and its right file of another size have just been appended
C1_Witness ==
  /\ pc = "next" /\ fi > 1
  /\ listing[fi - 1].isfile /\ StartsWith(listing[fi - 1].name, "L")
  /\ Len(data_arrays) >= 2
  /\ Len(data_arrays[Len(data_arrays) - 1][3]) # Len(LastRecord[3])

\* C2 as stated: when the run completes, the size of the output file is a
\* multiple of 520 bytes and size / 520 is twice the number of left files.
C2_SizeMultipleOf520 ==
  pc = "done" =>
    /\ (4 * Len(out.words)) % 520 = 0
    /\ (4 * Len(out.words)) \div 520 = 2 * lefts

\* C3: the output file is opened at most once, only by a run that walked
\* all 14 directories without an exception; a run that raised has aborted
\* and has neither opened nor written the output file.
C3_AllOrNothing ==
  /\ out.opens <= 1
  /\ out.opens = 1 => pc = "done" /\ fault = "none" /\ di = 15
  /\ pc = "done" => out.opens = 1
  /\ fault # "none" => pc = "aborted" /\ out.opens = 0 /\ out.words = <<>>
  /\ pc = "aborted" => fault # "none"

\* a run aborted with records already accumulated
C3_Witness ==
  /\ pc = "aborted" /\ fault \in {"FileNotFoundError", "struct.error", "IndexError"}
  /\ Len(data_arrays) >= 2
  /\ out.opens = 0

\* C4 as stated: the record of a left file named 'L' + "e<elevation>a<azimuth>"
\* + extension with at least 168 samples has the directory's elevation, the
\* integer that follows the 'a' as azimuth, and samples 40..167 over 32767.
C4_AzimuthAfterA ==
  (pc = "openR" /\ FormLEA(listing[fi].name) /\ Len(encoded_data) >= 168) =>
    /\ LastRecord[1] = number_range[di]
    /\ LastRecord[2] = DecimalValue(TextAfterA(listing[fi].name))
    /\ IsWindowOf(LastRecord[3], raw_data)

\* C4 amended: the azimuth is the integer written between the first 'e' of
\* the name and the first 'a' behind it; "Le40a90.bin" with 200 samples in
\* the directory of elevation 40 gives elevation 40 and azimuth 40.
C4_AzimuthBetweenEA ==
  (pc = "openR" /\ Len(encoded_data) >= 168) =>
    /\ LastRecord[1] = number_range[di]
    /\ LastRecord[2] = DecimalValue(TextBetweenEA(listing[fi].name))
    /\ IsWindowOf(LastRecord[3], raw_data)
    /\ (listing[fi].name = NameLA /\ number_range[di] = 40) =>
         LastRecord[1] = 40 /\ LastRecord[2] = 40

\* "Le40a90.bin" with 200 samples has been read in the directory of elevation 40
C4_Witness ==
  /\ pc = "openR"
  /\ listing[fi].name = NameLA
  /\ number_range[di] = 40
  /\ Len(encoded_data) = 200

\* C5 as stated: every record of data_arrays has exactly 128 samples.
C5_Always128Samples ==
  \A r \in 1..Len(data_arrays) : Len(data_arrays[r][3]) = 128

\* C6 as stated: only files whose name starts with 'L' are opened as scan
\* roots, and only such a file can make the reading, the name parsing or the
\* decoding abort the run.
C6_NonLeftSkipped ==
  /\ pc \in {"left", "openR", "right"} => StartsWith(listing[fi].name, "L")
  /\ (pc = "aborted" /\ fault \in {"IndexError", "struct.error", "ValueError"}) =>
       StartsWith(listing[fi].name, "L")

\* C7: whenever a buffer has been decoded, an even length 2n gave exactly n
\* samples, sample k the big-endian signed 16-bit value of bytes 2k, 2k+1;
\* an odd length raised struct.error and aborted the run, and the step
\* that read it appended no record.
C7_DecodeState ==
  fault # "IndexError" =>
    IF Len(raw_data) % 2 = 0
    THEN /\ fault # "struct.error"
         /\ 2 * Len(encoded_data) = Len(raw_data)
         /\ \A k \in 1..Len(encoded_data) :
              IsBigEndian16(encoded_data[k], raw_data[2 * k - 1], raw_data[2 * k])
    ELSE pc = "aborted" /\ fault = "struct.error" /\ out.opens = 0

C7_Decode ==
  /\ []C7_DecodeState
  /\ [][(pc \in {"left", "right"} /\ Len(raw_data') % 2 = 1) =>
          data_arrays' = data_arrays /\ pc' = "aborted"]_vars

\* a buffer of odd length has been read and the run has aborted on it
C7_Witness ==
  /\ pc = "aborted" /\ fault = "struct.error"
  /\ Len(raw_data) % 2 = 1
  /\ Len(encoded_data) > 0

\* C8 as stated: every sample of every record lies in [-1, 1].
C8_UnitRange ==
  \A r \in 1..Len(data_arrays) : \A k \in 1..Len(data_arrays[r][3]) :
    LET q == data_arrays[r][3][k]
    IN  0 - q[2] <= q[1] /\ q[1] <= q[2]

\* the number of 4-byte words of the records before record r
RECURSIVE WordsBefore(_, _)
WordsBefore(recs, r) ==
  IF r = 1 THEN 0 ELSE WordsBefore(recs, r - 1) + 2 + Len(recs[r - 1][3])

IsLeftEntry(e) == e.isfile /\ StartsWith(e.name, "L")

C10_AtMostOneOpen ==
  /\ Len(handles) <= 1
  /\ Ended => handles = <<>>

\* C10 amended: at most two input files are open at any time, two only while
\* the right file of a pair is read, and then they are the left file and its
\* right file; none is open between two files nor when the run has ended.
C10_AtMostTwoOpen ==
  /\ Len(handles) <= 2
  /\ pc \in {"left", "openR"} =>
       handles = <<<<number_range[di], listing[fi].name>>>>
  /\ pc = "right" =>
       handles = <<<<number_range[di], listing[fi].name>>,
                   <<number_range[di], <<"R">> \o Tail(listing[fi].name)>>>>
  /\ pc \notin {"left", "openR", "right"} => handles = <<>>

\* the right file is open while the left file still is
C10_Witness ==
  /\ pc = "right"
  /\ Len(handles) = 2
  /\ handles[1][2] = listing[fi].name

====
